---- MODULE Spec2Model ----
(***************************************************************************)
(* A model of notion_task_uploader.py: main() builds an index of the       *)
(* remote database (initialize / _fetch_existing_tasks), reads and         *)
(* normalises the CSV rows (process_csv_files, first loop), and then       *)
(* issues one create or update call per task (process_csv_files, second    *)
(* loop).                                                                  *)
(*                                                                         *)
(* Text values (cell values, titles, dates) are sequences of characters,   *)
(* so that concatenation, emptiness and date parsing are computed; a       *)
(* multi-letter atom such as "Add X" stands for a run of characters that   *)
(* holds neither "/" nor "-" nor a digit.  Dictionary keys (column and     *)
(* property names), record identifiers and cursors are TLA+ strings.       *)
(***************************************************************************)
EXTENDS Integers, Sequences, FiniteSets, TLC

VARIABLES
    pc,                \* where main() is: "main", "fetch", "read", "dispatch", "exit"
    mode,              \* args.mode
    remote,            \* the remote collection: the response the service gives per page
    files,             \* args.csv_files: per file the rows csv.DictReader yields
    existing_tasks,    \* uploader.existing_tasks: title -> page id
    has_more,          \* _fetch_existing_tasks: has_more
    start_cursor,      \* _fetch_existing_tasks: start_cursor
    requests,          \* the start_cursor (or None) of every query request sent
    fetched,           \* the page of every query response received
    fi,                \* process_csv_files: index of the file being read
    ri,                \* process_csv_files: rows of that file read so far
    all_tasks,         \* process_csv_files: all_tasks
    unique_categories, \* process_csv_files: unique_categories
    warnings,          \* the categories of the "Duplicate task found" warnings printed
    task_source,       \* for each task of all_tasks, the <<file, row>> it was read from
    failed,            \* the files whose reading raised ("Error processing file")
    results,           \* process_csv_files: results
    ti,                \* process_csv_files: index of the task being dispatched
    calls,             \* every create / update call issued, in order
    summary,           \* the upload summaries main() printed: <<>> or <<results>>
    exit_code          \* main()'s return value: <<>> while it runs, then <<0>> or <<1>>

vars == <<pc, mode, remote, files, existing_tasks, has_more, start_cursor,
          requests, fetched, fi, ri, all_tasks, unique_categories, warnings,
          task_source, failed, results, ti, calls, summary, exit_code>>

fetchVars == <<existing_tasks, has_more, start_cursor, requests, fetched>>
readVars == <<fi, ri, all_tasks, unique_categories, warnings, task_source, failed>>
syncVars == <<results, ti, calls>>
inputVars == <<mode, remote, files>>

(***************************************************************************)
(* Bounds of the model.                                                    *)
(***************************************************************************)
MaxPages == 2      \* pages of a remote collection
MaxRequests == 3   \* query requests followed before the model stops looking
MaxFiles == 2      \* input files of a run
MaxRows == 2       \* rows of a run, over all its files
MaxCols == 3       \* columns of a row, where rows are enumerated

(***************************************************************************)
(* Python values.                                                          *)
(***************************************************************************)
None == "None"

\* Python truthiness of a text value: the empty text is false.
Truthy(v) == v # <<>>

\* Python truthiness of a cursor: None and "" are false.
CursorTruthy(c) == c # None /\ c # ""

\* dict.get(key, default)
Get(d, k, default) == IF k \in DOMAIN d THEN d[k] ELSE default

\* d[key] = value
Put(d, k, v) == [x \in DOMAIN d \cup {k} |-> IF x = k THEN v ELSE d[x]]

EmptyDict == [x \in {} |-> <<>>]

Modes == {"create", "update", "both"}

(***************************************************************************)
(* COLUMN_MAPPING                                                          *)
(***************************************************************************)
COLUMN_MAPPING ==
    [k \in {"Week/Milestone", "Task Name", "Description", "Assigned LLM Tools",
            "Files Created", "Dependencies", "Enhancements",
            "Acceptance Criteria", "Status", "Priority", "Due Date",
            "Estimated Effort"} |->
        CASE k = "Week/Milestone" -> "Sprint"
          [] k = "Task Name" -> "Category"
          [] k = "Description" -> "Task Description"
          [] k = "Assigned LLM Tools" -> "Tools/APIs Required"
          [] k = "Files Created" -> "API/Tokens Required"
          [] k = "Dependencies" -> "Dependencies"
          [] k = "Enhancements" -> "Notes/Comments"
          [] k = "Acceptance Criteria" -> "Notes/Comments"
          [] k = "Status" -> "Status"
          [] k = "Priority" -> "Priority"
          [] k = "Due Date" -> "Due Date"
          [] k = "Estimated Effort" -> "Estimated Effort"]

\* f" | {value}"
Separator == <<" ", "|", " ">>

(***************************************************************************)
(* The schema normaliser: the body of "for row in reader".  A row is the   *)
(* ordered mapping csv.DictReader yields: a sequence of <<column, value>>  *)
(* with distinct columns.                                                  *)
(***************************************************************************)

\* One turn of "for old_key, value in row.items()".
StandardizeColumn(task, old_key, value) ==
    IF old_key \in DOMAIN COLUMN_MAPPING
    THEN LET new_key == COLUMN_MAPPING[old_key]
         IN  IF new_key = "Notes/Comments" /\ new_key \in DOMAIN task /\ Truthy(value)
             THEN Put(task, new_key, task[new_key] \o Separator \o value)
             ELSE Put(task, new_key, value)
    ELSE Put(task, old_key, value)

RECURSIVE StandardizeFrom(_, _, _)
StandardizeFrom(task, row, i) ==
    IF i > Len(row) THEN task
    ELSE StandardizeFrom(StandardizeColumn(task, row[i][1], row[i][2]), row, i + 1)

\* The task built from a row, including the "Make sure we have a Category" step.
StandardizeRow(row) ==
    LET task == StandardizeFrom(EmptyDict, row, 1)
    IN  IF "Category" \notin DOMAIN task /\ "Task Name" \in DOMAIN task
        THEN Put(task, "Category", task["Task Name"])
        ELSE task

\* "if not task.get('Category'): continue"
IsSkipped(task) == ~Truthy(Get(task, "Category", <<>>))

(***************************************************************************)
(* _convert_to_notion_properties                                           *)
(***************************************************************************)
Digits == {"0", "1", "2", "3", "4", "5", "6", "7", "8", "9"}

DigitValue(c) ==
    CASE c = "0" -> 0 [] c = "1" -> 1 [] c = "2" -> 2 [] c = "3" -> 3 [] c = "4" -> 4
      [] c = "5" -> 5 [] c = "6" -> 6 [] c = "7" -> 7 [] c = "8" -> 8 [] c = "9" -> 9

DigitChar(n) == <<"0", "1", "2", "3", "4", "5", "6", "7", "8", "9">>[n + 1]

Contains(s, c) == \E i \in 1..Len(s) : s[i] = c

AllDigits(s) == \A i \in 1..Len(s) : s[i] \in Digits

RECURSIVE NumberOf(_)
NumberOf(s) ==
    IF s = <<>> THEN 0
    ELSE 10 * NumberOf(SubSeq(s, 1, Len(s) - 1)) + DigitValue(s[Len(s)])

\* The pieces of s between the occurrences of c.
RECURSIVE SplitOn(_, _)
SplitOn(s, c) ==
    IF ~Contains(s, c) THEN <<s>>
    ELSE LET i == CHOOSE j \in 1..Len(s) : s[j] = c /\ \A k \in 1..(j - 1) : s[k] # c
         IN  <<SubSeq(s, 1, i - 1)>> \o SplitOn(SubSeq(s, i + 1, Len(s)), c)

IsLeap(y) == y % 4 = 0 /\ (y % 100 # 0 \/ y % 400 = 0)

DaysInMonth(y, m) ==
    IF m = 2 THEN (IF IsLeap(y) THEN 29 ELSE 28)
    ELSE IF m \in {4, 6, 9, 11} THEN 30 ELSE 31

\* datetime.strptime(s, "%m/%d/%Y") succeeds: %m is 1..12 and %d is 1..31 in one
\* or two digits, %Y is four digits, nothing else remains, and the date exists.
StrptimeOk(s) ==
    LET parts == SplitOn(s, "/")
    IN  /\ Len(parts) = 3
        /\ \A i \in 1..3 : AllDigits(parts[i])
        /\ Len(parts[1]) \in {1, 2} /\ NumberOf(parts[1]) \in 1..12
        /\ Len(parts[2]) \in {1, 2} /\ NumberOf(parts[2]) \in 1..31
        /\ Len(parts[3]) = 4 /\ NumberOf(parts[3]) >= 1
        /\ NumberOf(parts[2]) <= DaysInMonth(NumberOf(parts[3]), NumberOf(parts[1]))

TwoDigits(n) == <<DigitChar(n \div 10), DigitChar(n % 10)>>

\* dt.strftime("%Y-%m-%d") of the date strptime read (years from 1000 on: four digits).
Strftime(s) ==
    LET parts == SplitOn(s, "/")
    IN  parts[3] \o <<"-">> \o TwoDigits(NumberOf(parts[1]))
                 \o <<"-">> \o TwoDigits(NumberOf(parts[2]))

\* "Handle Due Date as a date field": the properties with the date added, or not.
DueDateProperty(properties, due_date) ==
    IF ~Truthy(due_date) THEN properties
    ELSE IF ~Contains(due_date, "-")
         THEN IF StrptimeOk(due_date)
              THEN Put(properties, "Due Date", [type |-> "date", content |-> Strftime(due_date)])
              ELSE properties    \* except ValueError: pass
         ELSE Put(properties, "Due Date", [type |-> "date", content |-> due_date])

\* A property that is set only when its value is not empty.
OptionalProperty(properties, name, type, value) ==
    IF Truthy(value) THEN Put(properties, name, [type |-> type, content |-> value])
    ELSE properties

ConvertToNotionProperties(task_data) ==
    LET p0 == Put(EmptyDict, "Category",
                  [type |-> "title", content |-> Get(task_data, "Category", <<>>)])
        p1 == OptionalProperty(p0, "Sprint", "rich_text", Get(task_data, "Sprint", <<>>))
        p2 == OptionalProperty(p1, "Task Description", "rich_text",
                               Get(task_data, "Task Description", <<>>))
        p3 == OptionalProperty(p2, "Tools/APIs Required", "rich_text",
                               Get(task_data, "Tools/APIs Required", <<>>))
        p4 == OptionalProperty(p3, "API/Tokens Required", "rich_text",
                               Get(task_data, "API/Tokens Required", <<>>))
        p5 == OptionalProperty(p4, "Status", "select",
                               Get(task_data, "Status", <<"Not Started">>))
        p6 == OptionalProperty(p5, "Priority", "select",
                               Get(task_data, "Priority", <<"Normal">>))
        p7 == DueDateProperty(p6, Get(task_data, "Due Date", <<>>))
        p8 == OptionalProperty(p7, "Estimated Effort", "select",
                               Get(task_data, "Estimated Effort", <<>>))
        p9 == OptionalProperty(p8, "Dependencies", "rich_text",
                               Get(task_data, "Dependencies", <<>>))
    IN  OptionalProperty(p9, "Notes/Comments", "rich_text",
                         Get(task_data, "Notes/Comments", <<>>))

(***************************************************************************)
(* The remote service.  A collection is a sequence of pages; the page a    *)
(* query returns is chosen by its start_cursor: none for the first page,   *)
(* Tokens[k] for page k.  A response is the page's records with has_more   *)
(* and next_cursor as the service sends them, well-formed or not.          *)
(***************************************************************************)
Tokens == <<"c1", "c2", "c3", "c4", "c5", "c6">>

\* The page a query with this start_cursor asks for (0: the service knows none).
PageFor(cursor) ==
    IF cursor = None THEN 1
    ELSE IF \E k \in 1..Len(Tokens) : Tokens[k] = cursor
         THEN CHOOSE k \in 1..Len(Tokens) : Tokens[k] = cursor
         ELSE 0

\* Payload with the cursor never sent.
PayloadWithoutCursor(cursor) == None

\* payload: start_cursor is sent only when it is truthy.
Payload(cursor) == IF CursorTruthy(cursor) THEN cursor ELSE None

\* "if title and title[0].get('text', {}).get('content')"
HasTitleText(page) == page.title # <<>> /\ Truthy(page.title[1])

\* One turn of "for page in data.get('results', [])".
RegisterPage(index, page) ==
    IF HasTitleText(page) THEN Put(index, page.title[1], page.id) ELSE index

RECURSIVE RegisterFrom(_, _, _)
RegisterFrom(index, pages, i) ==
    IF i > Len(pages) THEN index
    ELSE RegisterFrom(RegisterPage(index, pages[i]), pages, i + 1)

\* The index after the records of one response are processed.
ProcessResults(index, data) == RegisterFrom(index, data.results, 1)

(***************************************************************************)
(* Inputs of a run.                                                        *)
(***************************************************************************)
SetupDB == <<"Setup DB">>
NewTask == <<"New Task">>

\* A record of the remote database: its id and the text segments of its title.
Record(id, title) == [id |-> id, title |-> title]

Response(res, more, cursor) == [results |-> res, has_more |-> more, next_cursor |-> cursor]

\* The collections the whole-run specification draws from: an empty database, and
\* a two-page database that holds "Setup DB" as page_1 and an untitled record.
MainRemotes ==
    { <<Response(<<>>, FALSE, None)>>,
      <<Response(<<Record("page_1", <<SetupDB>>)>>, TRUE, Tokens[2]),
        Response(<<Record("page_2", <<>>)>>, FALSE, None)>> }

\* The rows the whole-run specification draws from.
RowSamples ==
    { <<<<"Task Name", SetupDB>>, <<"Status", <<"Done">>>>>>,
      <<<<"Task Name", NewTask>>>>,
      <<<<"Task Name", <<>>>>, <<"Description", <<"untitled">>>>>> }

RowSeqs(rows, n) == UNION {[1..k -> rows] : k \in 0..n}

RECURSIVE TotalRows(_)
TotalRows(fl) == IF fl = <<>> THEN 0 ELSE Len(Head(fl)) + TotalRows(Tail(fl))

\* Every list of 1..MaxFiles files that holds at most MaxRows rows in all.
FileLists ==
    {fl \in UNION {[1..n -> RowSeqs(RowSamples, MaxRows)] : n \in 1..MaxFiles} :
        TotalRows(fl) <= MaxRows}

(***************************************************************************)
(* main()                                                                  *)
(***************************************************************************)
InitWith(m, r, f) ==
    /\ pc = "main"
    /\ mode = m
    /\ remote = r
    /\ files = f
    /\ existing_tasks = EmptyDict
    /\ has_more = FALSE
    /\ start_cursor = None
    /\ requests = <<>>
    /\ fetched = <<>>
    /\ fi = 0
    /\ ri = 0
    /\ all_tasks = <<>>
    /\ unique_categories = {}
    /\ warnings = <<>>
    /\ task_source = <<>>
    /\ failed = {}
    /\ results = [total |-> 0, created |-> 0, updated |-> 0, errors |-> 0]
    /\ ti = 0
    /\ calls = <<>>
    /\ summary = <<>>
    /\ exit_code = <<>>

Init == \E m \in Modes, r \in MainRemotes, f \in FileLists : InitWith(m, r, f)

\* "if not api_key" / "if not database_id": return 1
MissingCredentials ==
    /\ pc = "main"
    /\ pc' = "exit"
    /\ exit_code' = <<1>>
    /\ UNCHANGED <<inputVars, fetchVars, readVars, syncVars, summary>>

\* NotionTaskUploader(...), initialize(), and the first lines of _fetch_existing_tasks.
StartInitialize ==
    /\ pc = "main"
    /\ pc' = "fetch"
    /\ existing_tasks' = EmptyDict
    /\ has_more' = TRUE
    /\ start_cursor' = None
    /\ UNCHANGED <<inputVars, requests, fetched, readVars, syncVars, summary, exit_code>>

\* One turn of "while has_more" whose request succeeds.
QueryOk ==
    /\ pc = "fetch"
    /\ has_more
    /\ Len(requests) < MaxRequests
    /\ PageFor(Payload(start_cursor)) \in 1..Len(remote)
    /\ LET data == remote[PageFor(Payload(start_cursor))]
       IN  /\ requests' = Append(requests, Payload(start_cursor))
           /\ fetched' = Append(fetched, PageFor(Payload(start_cursor)))
           /\ existing_tasks' = ProcessResults(existing_tasks, data)
           /\ has_more' = data.has_more
           /\ start_cursor' = IF data.has_more THEN data.next_cursor ELSE start_cursor
    /\ UNCHANGED <<pc, inputVars, readVars, syncVars, summary, exit_code>>

\* QueryFail with the exception swallowed in initialize(): the run goes on.
QueryFailSwallowed ==
    /\ pc = "fetch"
    /\ has_more
    /\ Len(requests) < MaxRequests
    /\ requests' = Append(requests, Payload(start_cursor))
    /\ pc' = "read"
    /\ fi' = 1
    /\ UNCHANGED <<inputVars, existing_tasks, has_more, start_cursor, fetched, ri,
                   all_tasks, unique_categories, warnings, task_source, failed,
                   syncVars, summary, exit_code>>

\* One turn of "while has_more" whose request fails (a transport error, or a
\* non-success response and raise_for_status): the exception leaves initialize()
\* and main() catches it: "return 1".
QueryFail ==
    /\ pc = "fetch"
    /\ has_more
    /\ Len(requests) < MaxRequests
    /\ requests' = Append(requests, Payload(start_cursor))
    /\ pc' = "exit"
    /\ exit_code' = <<1>>
    /\ UNCHANGED <<inputVars, existing_tasks, has_more, start_cursor, fetched,
                   readVars, syncVars, summary>>

\* "while has_more" ends; initialize() returns; process_csv_files begins.
InitializeDone ==
    /\ pc = "fetch"
    /\ ~has_more
    /\ pc' = "read"
    /\ fi' = 1
    /\ ri' = 0
    /\ all_tasks' = <<>>
    /\ unique_categories' = {}
    /\ UNCHANGED <<inputVars, fetchVars, warnings, task_source, failed, syncVars,
                   summary, exit_code>>

(***************************************************************************)
(* process_csv_files: reading                                              *)
(***************************************************************************)

\* open() or the reader raises, before the first row or after any row: "except
\* Exception" prints the error and the loop goes to the next file.
FileError ==
    /\ pc = "read"
    /\ fi <= Len(files)
    /\ failed' = failed \cup {fi}
    /\ fi' = fi + 1
    /\ ri' = 0
    /\ UNCHANGED <<pc, inputVars, fetchVars, all_tasks, unique_categories, warnings,
                   task_source, syncVars, summary, exit_code>>

\* One turn of "for row in reader".
ReadRow ==
    /\ pc = "read"
    /\ fi <= Len(files)
    /\ ri < Len(files[fi])
    /\ ri' = ri + 1
    /\ LET task == StandardizeRow(files[fi][ri + 1])
           category == Get(task, "Category", <<>>)
       IN  IF IsSkipped(task)
           THEN UNCHANGED <<all_tasks, unique_categories, warnings, task_source>>
           ELSE /\ warnings' = IF category \in unique_categories
                               THEN Append(warnings, category) ELSE warnings
                /\ unique_categories' = unique_categories \cup {category}
                /\ all_tasks' = Append(all_tasks, task)
                /\ task_source' = Append(task_source, <<fi, ri + 1>>)
    /\ UNCHANGED <<pc, inputVars, fetchVars, fi, failed, syncVars, summary, exit_code>>

\* The reader is exhausted: the file is closed and the next one is opened.
EndOfFile ==
    /\ pc = "read"
    /\ fi <= Len(files)
    /\ ri = Len(files[fi])
    /\ fi' = fi + 1
    /\ ri' = 0
    /\ UNCHANGED <<pc, inputVars, fetchVars, all_tasks, unique_categories, warnings,
                   task_source, failed, syncVars, summary, exit_code>>

\* "for file_path in files" ends: results is built.
StartUpload ==
    /\ pc = "read"
    /\ fi > Len(files)
    /\ results' = [total |-> Len(all_tasks), created |-> 0, updated |-> 0, errors |-> 0]
    /\ ti' = 1
    /\ pc' = "dispatch"
    /\ UNCHANGED <<inputVars, fetchVars, readVars, calls, summary, exit_code>>

(***************************************************************************)
(* process_csv_files: dispatch                                             *)
(***************************************************************************)
NoCall == [kind |-> "none", page_id |-> None]

\* CallFor with the mode left out of the decision.
CallForAnyMode(m, category, index) ==
    IF category \in DOMAIN index
    THEN [kind |-> "update", page_id |-> index[category]]
    ELSE [kind |-> "create", page_id |-> None]

\* The call "for task in all_tasks" makes for a task with this category.
CallFor(m, category, index) ==
    IF category \in DOMAIN index
    THEN IF m \in {"update", "both"}
         THEN [kind |-> "update", page_id |-> index[category]]
         ELSE NoCall
    ELSE IF m \in {"create", "both"}
         THEN [kind |-> "create", page_id |-> None]
         ELSE NoCall

CurrentCall == CallFor(mode, Get(all_tasks[ti], "Category", <<>>), existing_tasks)

\* The request of update_task / create_task as it is sent.
Sent(call, task, ok) ==
    [kind |-> call.kind, page_id |-> call.page_id, task |-> ti,
     properties |-> ConvertToNotionProperties(task), ok |-> ok]

Counter(call) == IF call.kind = "update" THEN "updated" ELSE "created"

\* CallSucceeds with a created page registered in the index.
CallSucceedsRegistering ==
    /\ pc = "dispatch"
    /\ ti <= Len(all_tasks)
    /\ CurrentCall.kind # "none"
    /\ calls' = Append(calls, Sent(CurrentCall, all_tasks[ti], TRUE))
    /\ results' = [results EXCEPT ![Counter(CurrentCall)] = @ + 1]
    /\ ti' = ti + 1
    /\ existing_tasks' = IF CurrentCall.kind = "create"
                         THEN Put(existing_tasks, Get(all_tasks[ti], "Category", <<>>), "new_page")
                         ELSE existing_tasks
    /\ UNCHANGED <<pc, inputVars, has_more, start_cursor, requests, fetched, readVars,
                   summary, exit_code>>

\* update_task / create_task returns: the counter of the call is incremented.
CallSucceeds ==
    /\ pc = "dispatch"
    /\ ti <= Len(all_tasks)
    /\ CurrentCall.kind # "none"
    /\ calls' = Append(calls, Sent(CurrentCall, all_tasks[ti], TRUE))
    /\ results' = [results EXCEPT ![Counter(CurrentCall)] = @ + 1]
    /\ ti' = ti + 1
    /\ UNCHANGED <<pc, inputVars, fetchVars, readVars, summary, exit_code>>

\* CallFails with the counter incremented before the call is awaited.
CallFailsCounted ==
    /\ pc = "dispatch"
    /\ ti <= Len(all_tasks)
    /\ CurrentCall.kind # "none"
    /\ calls' = Append(calls, Sent(CurrentCall, all_tasks[ti], FALSE))
    /\ results' = [results EXCEPT ![Counter(CurrentCall)] = @ + 1, !.errors = @ + 1]
    /\ ti' = ti + 1
    /\ UNCHANGED <<pc, inputVars, fetchVars, readVars, summary, exit_code>>

\* update_task / create_task raises: "except Exception" counts an error.
CallFails ==
    /\ pc = "dispatch"
    /\ ti <= Len(all_tasks)
    /\ CurrentCall.kind # "none"
    /\ calls' = Append(calls, Sent(CurrentCall, all_tasks[ti], FALSE))
    /\ results' = [results EXCEPT !.errors = @ + 1]
    /\ ti' = ti + 1
    /\ UNCHANGED <<pc, inputVars, fetchVars, readVars, summary, exit_code>>

\* The mode does not allow the call: nothing is sent or counted.
NoOp ==
    /\ pc = "dispatch"
    /\ ti <= Len(all_tasks)
    /\ CurrentCall.kind = "none"
    /\ ti' = ti + 1
    /\ UNCHANGED <<pc, inputVars, fetchVars, readVars, results, calls, summary, exit_code>>

\* process_csv_files returns; main() prints the summary: "return 0".
PrintSummary ==
    /\ pc = "dispatch"
    /\ ti > Len(all_tasks)
    /\ summary' = <<results>>
    /\ exit_code' = <<0>>
    /\ pc' = "exit"
    /\ UNCHANGED <<inputVars, fetchVars, readVars, syncVars>>

Next ==
    \/ MissingCredentials
    \/ StartInitialize
    \/ QueryOk
    \/ QueryFail
    \/ InitializeDone
    \/ FileError
    \/ ReadRow
    \/ EndOfFile
    \/ StartUpload
    \/ CallSucceeds
    \/ CallFails
    \/ NoOp
    \/ PrintSummary

Spec == Init /\ [][Next]_vars

(***************************************************************************)
(* Further specifications: the same program on other inputs.               *)
(***************************************************************************)

\* SpecFetch: every collection of 1..MaxPages pages whose responses are well-formed
\* (has_more with the next page's cursor, which on the last page is a cursor the
\* service does not know) or malformed (has_more with next_cursor missing or empty).
ResultSamples ==
    { <<>>,
      <<Record("page_1", <<SetupDB>>), Record("page_2", <<<<>>, NewTask>>)>>,
      <<Record("page_3", <<>>), Record("page_4", <<SetupDB>>), Record("page_5", <<NewTask>>)>> }

ResponsesOf(k) ==
    {Response(res, FALSE, None) : res \in ResultSamples}
    \cup {Response(res, TRUE, c) : res \in ResultSamples, c \in {None, "", Tokens[k + 1]}}

Collections ==
    UNION {{r \in [1..n -> UNION {ResponsesOf(k) : k \in 1..n}] :
                \A k \in 1..n : r[k] \in ResponsesOf(k)} : n \in 1..MaxPages}

FetchFiles == << <<<<<<"Task Name", SetupDB>>>>, <<<<"Category", NewTask>>>>>> >>

InitFetch == \E m \in Modes, r \in Collections : InitWith(m, r, FetchFiles)

SpecFetch == InitFetch /\ [][Next]_vars

\* SpecNorm: one file of one row, over every row of at most MaxCols distinct columns.
NormColumns == {"Task Name", "Category", "Enhancements", "Acceptance Criteria", "Owner"}

NormValues == {<<>>, <<"Add X">>, <<"Must pass Y">>}

DistinctColumns(row) ==
    \A i, j \in 1..Len(row) : i # j => row[i][1] # row[j][1]

NormRows ==
    {row \in RowSeqs(NormColumns \X NormValues, MaxCols) : DistinctColumns(row)}

InitNorm ==
    \E m \in Modes, row \in NormRows : InitWith(m, <<Response(<<>>, FALSE, None)>>, <<<<row>>>>)

SpecNorm == InitNorm /\ [][Next]_vars

\* SpecDate: one file of one row with a Due Date.
DateSamples ==
    { <<"0", "3", "/", "1", "5", "/", "2", "0", "2", "5">>,
      <<"3", "/", "5", "/", "2", "0", "2", "5">>,
      <<"2", "0", "2", "5", "-", "0", "3", "-", "1", "5">>,
      <<"n", "o", "t", "-", "a", "-", "d", "a", "t", "e">>,
      <<"n", "o", "t", "a", "d", "a", "t", "e">>,
      <<"0", "2", "/", "3", "0", "/", "2", "0", "2", "5">>,
      <<"0", "2", "/", "2", "9", "/", "2", "0", "2", "4">>,
      <<"1", "3", "/", "0", "1", "/", "2", "0", "2", "5">>,
      <<"0", "3", "/", "1", "5", "/", "2", "5">>,
      <<>> }

InitDate ==
    \E m \in Modes, r \in MainRemotes, d \in DateSamples :
        InitWith(m, r, << <<<<<<"Task Name", NewTask>>, <<"Due Date", d>>>>>> >>)

SpecDate == InitDate /\ [][Next]_vars

(***************************************************************************)
(* Properties                                                              *)
(***************************************************************************)
Category(i) == Get(all_tasks[i], "Category", <<>>)

\* The calls issued for task i.
CallsOf(i) == {j \in 1..Len(calls) : calls[j].task = i}

\* The tasks the second loop is done with.
Dispatched == IF pc \in {"dispatch", "exit"} THEN 1..(ti - 1) ELSE {}

OkCalls(kind) == {j \in 1..Len(calls) : calls[j].kind = kind /\ calls[j].ok}

FailedCalls == {j \in 1..Len(calls) : ~calls[j].ok}

\* C1: every dispatched task whose Category is in the index gets exactly one update
\* call, to the indexed identifier, when the mode is update or both, and no call
\* when the mode is create; every dispatched task whose Category is not in the index
\* gets exactly one create call when the mode is create or both, and no call when
\* the mode is update; updated and created count the calls that succeeded.  So no
\* call is an update in mode create, and none is a create in mode update.
C1_ModeDecidesCall ==
    /\ \A i \in Dispatched :
          IF Category(i) \in DOMAIN existing_tasks
          THEN IF mode \in {"update", "both"}
               THEN /\ Cardinality(CallsOf(i)) = 1
                    /\ \A j \in CallsOf(i) : /\ calls[j].kind = "update"
                                             /\ calls[j].page_id = existing_tasks[Category(i)]
               ELSE CallsOf(i) = {}
          ELSE IF mode \in {"create", "both"}
               THEN /\ Cardinality(CallsOf(i)) = 1
                    /\ \A j \in CallsOf(i) : calls[j].kind = "create"
               ELSE CallsOf(i) = {}
    /\ results.updated = Cardinality(OkCalls("update"))
    /\ results.created = Cardinality(OkCalls("create"))
    /\ mode = "create" => \A j \in 1..Len(calls) : calls[j].kind # "update"
    /\ mode = "update" => \A j \in 1..Len(calls) : calls[j].kind # "create"

\* With the index {"Setup DB": "page_1"} and mode both, "Setup DB" was updated as
\* page_1 and "New Task" was created, one of each counted.
C1_Witness ==
    /\ mode = "both"
    /\ summary # <<>>
    /\ DOMAIN existing_tasks = {SetupDB}
    /\ \E i, j \in 1..Len(calls) :
          /\ calls[i].kind = "update" /\ calls[i].page_id = "page_1" /\ calls[i].ok
          /\ Category(calls[i].task) = SetupDB
          /\ calls[j].kind = "create" /\ calls[j].ok
          /\ Category(calls[j].task) = NewTask
    /\ results.updated = 1
    /\ results.created = 1

\* C2: a failed call adds one to errors and nothing to created or updated, is not
\* retried (the calls are for strictly later and later tasks), and does not end the
\* run: once a call was issued the run ends only with the summary, after every task
\* was dispatched.  created + updated + errors never exceeds total.
C2_FailureIsPerTask ==
    pc \in {"dispatch", "exit"} =>
        /\ results.errors = Cardinality(FailedCalls)
        /\ results.created + results.updated = Len(calls) - Cardinality(FailedCalls)
        /\ \A j, k \in 1..Len(calls) : j < k => calls[j].task < calls[k].task
        /\ (pc = "exit" /\ calls # <<>>) =>
              /\ summary # <<>>
              /\ ti = Len(all_tasks) + 1
              /\ \A i \in 1..Len(all_tasks) :
                    CallFor(mode, Category(i), existing_tasks) # NoCall => CallsOf(i) # {}
        /\ results.created + results.updated + results.errors <= results.total

\* The first call failed, the second task was still dispatched and its call succeeded.
C2_Witness ==
    /\ summary # <<>>
    /\ Len(calls) = 2
    /\ ~calls[1].ok
    /\ calls[2].ok
    /\ results.errors = 1

\* A query request got no response.
IndexBuildFailed == Len(requests) > Len(fetched)

\* The "while has_more" loop ended on a response with has_more false.
IndexBuildCompleted ==
    /\ ~IndexBuildFailed
    /\ fetched # <<>>
    /\ ~remote[fetched[Len(fetched)]].has_more

\* C3: when a page request fails during index building, no create or update call is
\* ever issued, no summary is printed and main returns 1; main returns 0 only when
\* index building completed, and does so also when per-task calls failed.
C3_IndexFailureAborts ==
    /\ IndexBuildFailed =>
          /\ pc = "exit"
          /\ exit_code = <<1>>
          /\ calls = <<>>
          /\ summary = <<>>
    /\ exit_code = <<0>> => IndexBuildCompleted /\ summary # <<>>
    /\ (pc = "exit" /\ FailedCalls # {}) => exit_code = <<0>>

\* The request for the second page failed after the first page was indexed.
C3_Witness ==
    /\ pc = "exit"
    /\ exit_code = <<1>>
    /\ Len(requests) = 2
    /\ Len(fetched) = 1
    /\ DOMAIN existing_tasks # {}

\* The tasks with category c, and the calls issued for them.
TasksWith(c) == {i \in 1..Len(all_tasks) : Category(i) = c}

CallsWith(c) == {j \in 1..Len(calls) : Category(calls[j].task) = c}

DuplicatesNotRemoved ==
    summary # <<>> =>
        \A c \in unique_categories :
            IF c \in DOMAIN existing_tasks
            THEN \A j \in CallsWith(c) : /\ calls[j].kind = "update"
                                         /\ calls[j].page_id = existing_tasks[c]
            ELSE mode \in {"create", "both"} =>
                    /\ Cardinality(CallsWith(c)) = Cardinality(TasksWith(c))
                    /\ \A j \in CallsWith(c) : calls[j].kind = "create"

\* C9: no step after initialize returns changes the index; so when the run is over,
\* a Category that is not in the index got one create call per row that carries it
\* (in mode create or both), and every call for a Category that is in the index is
\* an update of the indexed identifier.
C9_IndexIsReadOnly ==
    /\ [][(pc \in {"read", "dispatch", "exit"}) => (existing_tasks' = existing_tasks)]_vars
    /\ []DuplicatesNotRemoved

\* A Category that is not in the index came in two rows: one warning, two creates.
C9_Witness ==
    /\ summary # <<>>
    /\ warnings # <<>>
    /\ \E c \in unique_categories :
          /\ c \notin DOMAIN existing_tasks
          /\ Cardinality(TasksWith(c)) = 2
          /\ Cardinality(CallsWith(c)) = 2
          /\ \A j \in CallsWith(c) : calls[j].kind = "create" /\ calls[j].ok

(***************************************************************************)
(* Properties of the index builder (SpecFetch)                             *)
(***************************************************************************)

\* The i-th response received.
ResponseAt(i) == remote[fetched[i]]

\* The records received so far whose first title segment is t, not empty.
Carrying(t) ==
    {page \in UNION {{ResponseAt(i).results[k] : k \in 1..Len(ResponseAt(i).results)} :
                        i \in 1..Len(fetched)} :
        page.title # <<>> /\ page.title[1] = t /\ t # <<>>}

\* C4: the first request carries no cursor and every later one follows a response
\* with has_more and carries the cursor that response returned; the run leaves
\* index building only after a response with has_more false, having received the
\* pages in order and none twice; and every record
\* received whose first title segment is not empty has its title in the index,
\* mapped to the identifier of a received record that carries that title.
C4_PaginationCollectsAll ==
    /\ requests # <<>> => requests[1] = None
    /\ \A i \in 2..Len(requests) :
          /\ ResponseAt(i - 1).has_more
          /\ CursorTruthy(ResponseAt(i - 1).next_cursor) =>
                requests[i] = ResponseAt(i - 1).next_cursor
    /\ (pc \in {"read", "dispatch"} \/ exit_code = <<0>>) =>
          /\ IndexBuildCompleted
          /\ \A i \in 1..Len(fetched) : fetched[i] = i
    /\ \A i \in 1..Len(fetched) : \A k \in 1..Len(ResponseAt(i).results) :
          LET page == ResponseAt(i).results[k]
          IN  (page.title # <<>> /\ page.title[1] # <<>>) =>
                 /\ page.title[1] \in DOMAIN existing_tasks
                 /\ \E other \in Carrying(page.title[1]) :
                       other.id = existing_tasks[page.title[1]]

\* Two pages were requested, the second with the first one's cursor; the index holds
\* the titles of both, "Setup DB" under the identifier of the record seen last.
C4_Witness ==
    /\ pc = "read"
    /\ fetched = <<1, 2>>
    /\ requests = <<None, Tokens[2]>>
    /\ remote[1].results # <<>>
    /\ remote[1].results[1] = Record("page_1", <<SetupDB>>)
    /\ DOMAIN existing_tasks = {SetupDB, NewTask}
    /\ existing_tasks[SetupDB] = "page_4"
    /\ existing_tasks[NewTask] = "page_5"

\* C10: index building requests each page of the collection at most once (and so
\* ends after at most as many requests as there are pages), whatever responses the
\* service gives.
C10_EachPageRequestedOnce ==
    \A p \in 1..Len(remote) :
        Cardinality({i \in 1..Len(requests) : PageFor(requests[i]) = p}) <= 1

(***************************************************************************)
(* Properties of reading and normalising                                   *)
(***************************************************************************)
RowOf(i) == files[task_source[i][1]][task_source[i][2]]

TasksFrom(f, r) == {i \in 1..Len(all_tasks) : task_source[i] = <<f, r>>}

ReadingIsOver == pc = "dispatch" \/ summary # <<>>

\* C8: a file whose reading raised contributes no task, adds nothing to errors, and
\* the other files are still read: each of their rows with a Category is a task.
C8_FailedFileIsSkipped ==
    /\ \A i \in 1..Len(all_tasks) : task_source[i][1] \notin failed
    /\ results.errors = Cardinality(FailedCalls)
    /\ ReadingIsOver =>
          \A f \in (1..Len(files)) \ failed : \A r \in 1..Len(files[f]) :
              ~IsSkipped(StandardizeRow(files[f][r])) => TasksFrom(f, r) # {}

\* The row has a "Task Name" or "Category" column that is not empty.
HasTitleField(row) ==
    \E k \in 1..Len(row) : row[k][1] \in {"Task Name", "Category"} /\ row[k][2] # <<>>

\* The <<file, row>> of every row of a file read without error.
GoodRows ==
    UNION {{<<f, r>> : r \in 1..Len(files[f])} : f \in (1..Len(files)) \ failed}

\* C5: once reading is over, every row of a file read without error that has a
\* non-empty title field is exactly one task, with a non-empty Category; a row
\* without one is no task; and when no file failed, total is the number of rows
\* with a non-empty title field.
C5_TitledRowsBecomeTasks ==
    ReadingIsOver =>
        /\ \A fr \in GoodRows :
              IF HasTitleField(files[fr[1]][fr[2]])
              THEN /\ Cardinality(TasksFrom(fr[1], fr[2])) = 1
                   /\ \A i \in TasksFrom(fr[1], fr[2]) : Category(i) # <<>>
              ELSE TasksFrom(fr[1], fr[2]) = {}
        /\ failed = {} =>
              results.total =
                  Cardinality({fr \in GoodRows : HasTitleField(files[fr[1]][fr[2]])})

HasColumn(row, col) == \E k \in 1..Len(row) : row[k][1] = col

Position(row, col) == CHOOSE k \in 1..Len(row) : row[k][1] = col

\* The two Notes/Comments values of a row, in column order.
NotesValues(row) ==
    LET e == Position(row, "Enhancements")
        a == Position(row, "Acceptance Criteria")
    IN  IF e < a THEN <<row[e][2], row[a][2]>> ELSE <<row[a][2], row[e][2]>>

\* C6, for the rows whose first Notes/Comments value is not empty (where writing
\* over it shows): a task read from a row with both "Enhancements" and "Acceptance
\* Criteria" has as Notes/Comments the two values in column order, joined by " | ".
C6_NotesConcatenated ==
    \A i \in 1..Len(all_tasks) :
        (/\ HasColumn(RowOf(i), "Enhancements")
         /\ HasColumn(RowOf(i), "Acceptance Criteria")
         /\ NotesValues(RowOf(i))[1] # <<>>) =>
            Get(all_tasks[i], "Notes/Comments", <<>>) =
                NotesValues(RowOf(i))[1] \o Separator \o NotesValues(RowOf(i))[2]

(***************************************************************************)
(* Properties of the Due Date conversion (SpecDate)                        *)
(***************************************************************************)

\* d is year-month-day: four, two and two digits that name a date.
IsIsoDate(d) ==
    LET parts == SplitOn(d, "-")
    IN  /\ Len(parts) = 3
        /\ \A i \in 1..3 : AllDigits(parts[i])
        /\ Len(parts[1]) = 4 /\ Len(parts[2]) = 2 /\ Len(parts[3]) = 2
        /\ NumberOf(parts[1]) >= 1
        /\ NumberOf(parts[2]) \in 1..12
        /\ NumberOf(parts[3]) \in 1..DaysInMonth(NumberOf(parts[1]), NumberOf(parts[2]))

\* d is month/day/year and names a date.
IsMonthDayYear(d) == ~Contains(d, "-") /\ StrptimeOk(d)

\* C7: in the properties of every call sent, a month/day/year Due Date is a
\* year-month-day date ("03/15/2025" is "2025-03-15"), a year-month-day Due Date
\* is unchanged, and a Due Date that is no valid date is absent.
C7_DueDateConversion ==
    \A j \in 1..Len(calls) :
        LET d == Get(all_tasks[calls[j].task], "Due Date", <<>>)
            p == calls[j].properties
        IN  /\ d = <<"0", "3", "/", "1", "5", "/", "2", "0", "2", "5">> =>
                  /\ "Due Date" \in DOMAIN p
                  /\ p["Due Date"].content = <<"2", "0", "2", "5", "-", "0", "3", "-", "1", "5">>
            /\ IsMonthDayYear(d) =>
                  "Due Date" \in DOMAIN p /\ IsIsoDate(p["Due Date"].content)
            /\ IsIsoDate(d) =>
                  "Due Date" \in DOMAIN p /\ p["Due Date"].content = d
            /\ (~IsMonthDayYear(d) /\ ~IsIsoDate(d)) => "Due Date" \notin DOMAIN p

====
